---- MODULE Spec2Model ----
(***************************************************************************)
(* TinyLink (index.js): the link registry and redirect engine.             *)
(*                                                                         *)
(* Strings are sequences of one-character strings, so that the regular     *)
(* expressions and the code generator are computed character by character. *)
(* A request path is the sequence of its segments.  Every `await` of a     *)
(* handler is a point where other requests may run: a handler is one       *)
(* action per store call, the response being sent by the continuation of   *)
(* the last call.                                                          *)
(*                                                                         *)
(* Spec runs requests in flight together, on the inputs that meet in one   *)
(* code.  SpecInputs runs one request at a time, on every class of input.  *)
(* SpecTimed is Spec with a clock that runs.  SpecReads runs the two read  *)
(* routes next to the writes, SpecClock one request at a time under a      *)
(* clock that runs, and SpecLive every route with store calls that return  *)
(* or fail in the end.  SpecRoutes runs GET requests on every shape of     *)
(* path through the routes in their registration order.                    *)
(***************************************************************************)
EXTENDS Integers, Sequences, FiniteSets, TLC

(* ------------------------------- bounds -------------------------------- *)

\* Number of requests that may be in flight at the same time.
MaxInflight == 2
\* Number of rows inserted in one behaviour.
MaxIds == 2
\* Number of clicks a row is taken to.
MaxClicks == 2
\* Last value of the wall clock.
MaxClock == 2

(* ------------------------------ characters ----------------------------- *)

\* The base64url alphabet of Buffer.toString('base64url'), index 0..63 at 1..64.
Base64UrlAlphabet ==
    << "A","B","C","D","E","F","G","H","I","J","K","L","M",
       "N","O","P","Q","R","S","T","U","V","W","X","Y","Z",
       "a","b","c","d","e","f","g","h","i","j","k","l","m",
       "n","o","p","q","r","s","t","u","v","w","x","y","z",
       "0","1","2","3","4","5","6","7","8","9","-","_" >>

\* The character class [A-Za-z0-9].
Alnum == { Base64UrlAlphabet[k] : k \in 1..62 }

\* The character class \s, as far as the inputs of the model reach.
WhiteSpace == { " ", "\t", "\n", "\r" }

\* The characters the regular expression dot does not match.
LineTerminators == { "\n", "\r" }

\* Case folding of the `i` flag and of Express' case-insensitive routing.
ToLower(ch) ==
    IF \E k \in 1..26 : Base64UrlAlphabet[k] = ch
    THEN Base64UrlAlphabet[(CHOOSE k \in 1..26 : Base64UrlAlphabet[k] = ch) + 26]
    ELSE ch

LowerCase(s) == [k \in 1..Len(s) |-> ToLower(s[k])]

\* JavaScript's undefined, for a field the request body does not hold.
Undefined == << "undefined" >>

\* JavaScript truthiness of a string-or-undefined value: undefined and ""
\* are falsy.
Truthy(v) == v # Undefined /\ v # << >>

\* String.prototype.slice(from) for 1-based `from`.
Tail0(s, from) == IF from > Len(s) THEN << >> ELSE SubSeq(s, from, Len(s))

(* -------------------------- validation (regex) ------------------------- *)

\* /^https?:\/\/[^\s$.?#].[^\s]*$/i applied to the characters after the
\* scheme: one character outside [\s$.?#], one character the dot matches,
\* then non-whitespace characters to the end.
UrlRest(r) ==
    /\ Len(r) >= 2
    /\ r[1] \notin WhiteSpace \cup { "$", ".", "?", "#" }
    /\ r[2] \notin LineTerminators
    /\ \A k \in 3..Len(r) : r[k] \notin WhiteSpace

URL_REGEX(u) ==
    LET l == LowerCase(u)
        starts(p) == Len(l) >= Len(p) /\ SubSeq(l, 1, Len(p)) = p
    IN  \/ /\ starts(<< "h","t","t","p",":","/","/" >>)
           /\ UrlRest(Tail0(u, 8))
        \/ /\ starts(<< "h","t","t","p","s",":","/","/" >>)
           /\ UrlRest(Tail0(u, 9))

\* Mutant of CODE_REGEX: the quantifier {6,7}.
CODE_REGEX_6to7(c) ==
    /\ Len(c) >= 6
    /\ Len(c) <= 7
    /\ \A k \in 1..Len(c) : c[k] \in Alnum

\* /^[A-Za-z0-9]{6,8}$/
CODE_REGEX(c) ==
    /\ Len(c) >= 6
    /\ Len(c) <= 8
    /\ \A k \in 1..Len(c) : c[k] \in Alnum

(* ---------------------------- code generator --------------------------- *)

\* Buffer.toString('base64url') of 6 bytes: two groups of three bytes, four
\* sextets each, no padding.
Base64Url(bytes) ==
    LET n(g)  == bytes[3*g + 1] * 65536 + bytes[3*g + 2] * 256 + bytes[3*g + 3]
        sx(g) == << n(g) \div 262144, (n(g) \div 4096) % 64,
                    (n(g) \div 64) % 64, n(g) % 64 >>
        all   == sx(0) \o sx(1)
    IN  [k \in 1..8 |-> Base64UrlAlphabet[all[k] + 1]]

\* .replace(/[-_]/g, '')
RECURSIVE StripDashes(_)
StripDashes(s) ==
    IF s = << >> THEN << >>
    ELSE IF Head(s) \in { "-", "_" } THEN StripDashes(Tail(s))
         ELSE << Head(s) >> \o StripDashes(Tail(s))

\* .slice(0, length)
Slice0(s, length) == SubSeq(s, 1, IF length < Len(s) THEN length ELSE Len(s))

\* generateRandomCode(): `r` is Math.floor(Math.random() * 3), `bytes` is
\* crypto.randomBytes(6).
generateRandomCode(r, bytes) ==
    LET length == r + 6
    IN  Slice0(StripDashes(Base64Url(bytes)), length)

\* The values Math.floor(Math.random() * 3) takes.
RandomLengths == 0..2

\* Outputs of crypto.randomBytes(6) the model draws, by their encoding:
\* "airocks7" (no '-' or '_'), "airock-_" (two) and "ab-_-cde" (three).
Bytes_airocks7 == << 106, 42, 232, 114, 75, 59 >>
Bytes_airock   == << 106, 42, 232, 114, 79, 191 >>
Bytes_abcde    == << 105, 191, 191, 249, 199, 94 >>
RandomBytes == { Bytes_airocks7, Bytes_abcde }

(* -------------------------------- inputs -------------------------------- *)

Str_https_e_co   == << "h","t","t","p","s",":","/","/","e",".","c","o" >>
Str_http_a_b     == << "h","t","t","p",":","/","/","a"," ","b" >>
Str_ftp_e_co     == << "f","t","p",":","/","/","e",".","c","o" >>
Str_airocks7     == << "a","i","r","o","c","k","s","7" >>
Str_invalid      == << "i","n","v","a","l","i","d","!" >>
Str_healthz      == << "h","e","a","l","t","h","z" >>
Str_abc12        == << "a","b","c","1","2" >>
Str_abcde        == << "a","b","c","d","e" >>
Str_AIROCKS7     == << "A","I","R","O","C","K","S","7" >>
Str_airock       == << "a","i","r","o","c","k" >>
Str_nonexist     == << "n","o","n","e","x","i","s","t" >>
Str_api          == << "a","p","i" >>
Str_links        == << "l","i","n","k","s" >>
Str_code         == << "c","o","d","e" >>

\* targetUrl values of the request bodies: absent, "https://e.co",
\* "http://a b" (an embedded space) and "ftp://e.co".
TargetUrls == { Undefined, Str_https_e_co, Str_http_a_b, Str_ftp_e_co }

\* customCode values of the request bodies: absent, "", "airocks7",
\* "invalid!", "healthz", "abc12" and "abcde".
CustomCodes ==
    { Undefined, << >>, Str_airocks7, Str_invalid, Str_healthz, Str_abc12,
      Str_abcde }

\* Every value a record's shortCode can take.
Codes ==
    { c \in CustomCodes : Truthy(c) /\ CODE_REGEX(c) }
        \cup { generateRandomCode(r, b) : r \in RandomLengths, b \in RandomBytes }

\* The :code parameter of the requests: every code a record can have, and
\* one no record ever has.
CodeParams == (Codes \cup { Str_nonexist }) \ { << >> }

\* The inputs of the requests that run concurrently: a targetUrl or none, a
\* customCode or none, one draw of the random source, and as :code the two
\* codes these give and one no record has.
HotTargetUrls == { Undefined, Str_https_e_co }
HotCustomCodes == { Undefined, Str_airocks7 }
HotRandomBytes == { Bytes_airock }
HotCodeParams == { Str_airocks7, Str_airock, Str_nonexist }

\* The customCode values of the requests that run next to the reads: two
\* codes, so that one record can be told from another.
ReadCustomCodes == { Str_airocks7, Str_airock }

\* The :code parameter of the reads under the clock: the two codes, and
\* one that differs from a code in the case of its letters only.
ReadCodeParams == ReadCustomCodes \cup { Str_AIROCKS7 }

\* The customCode values of the requests that run next to the GETs of every
\* path: a code that is also the name of a route, and one that is not.
RouteCustomCodes == { Str_healthz, Str_airocks7 }

\* The paths of the GET requests: /, /<c>, /code/<c>, /api/links,
\* /api/links/<c> and /<c>/<c>.
RoutePaths ==
    { << >>, << Str_api, Str_links >> }
        \cup { << c >> : c \in RouteCustomCodes }
        \cup { << Str_code, c >> : c \in RouteCustomCodes }
        \cup { << Str_api, Str_links, c >> : c \in RouteCustomCodes }
        \cup { << c, c >> : c \in RouteCustomCodes }

\* The codes whose deletions are followed: that of README tests 3 to 13,
\* and the code the generator makes of the draw "ab-_-cde".
WatchedCodes == { Str_airocks7, Str_abcde }

(* ------------------------------- the store ----------------------------- *)

\* null of the Prisma client, and of the lastClickedAt column.
NoTime == 0
NoLink ==
    [ id |-> 0, shortCode |-> Undefined, targetUrl |-> Undefined,
      totalClicks |-> 0, createdAt |-> NoTime, lastClickedAt |-> NoTime ]

\* The unique index on Link.shortCode.
ShortCodeTaken(s, code) == \E l \in s : l.shortCode = code

\* The column defaults of a new Link row: id, createdAt, lastClickedAt.
LinkDefaults(id, t) == [ id |-> id, createdAt |-> t, lastClickedAt |-> NoTime ]

\* Mutant of StoreFindUnique: a lookup without regard to case.
StoreFindUniqueNoCase(s, code) ==
    IF \E l \in s : LowerCase(l.shortCode) = LowerCase(code)
    THEN CHOOSE l \in s : LowerCase(l.shortCode) = LowerCase(code)
    ELSE NoLink

\* prisma.link.findUnique({ where: { shortCode } })
StoreFindUnique(s, code) ==
    IF ShortCodeTaken(s, code)
    THEN CHOOSE l \in s : l.shortCode = code
    ELSE NoLink

\* Mutant of OrderByCreatedAtDesc: `createdAt: 'asc'`.
OrderByCreatedAtAsc(q) ==
    \A i, j \in 1..Len(q) : i < j => q[i].createdAt <= q[j].createdAt

\* orderBy: { createdAt: 'desc' }: the order the store leaves open among
\* rows of one createdAt.
OrderByCreatedAtDesc(q) ==
    \A i, j \in 1..Len(q) : i < j => q[i].createdAt >= q[j].createdAt

\* prisma.link.findMany({ orderBy: { createdAt: 'desc' } }): the results the
\* store may give, every row once.
StoreFindMany(s) ==
    { q \in [1..Cardinality(s) -> s] :
        /\ \A i, j \in 1..Cardinality(s) : q[i] = q[j] => i = j
        /\ OrderByCreatedAtDesc(q) }

\* Mutant of StoreCreate: an insert the unique index does not guard.
StoreCreateUnchecked(s, id, t, shortCode, targetUrl) ==
    LET l == [ id |-> id, shortCode |-> shortCode, targetUrl |-> targetUrl,
               totalClicks |-> 0, createdAt |-> t, lastClickedAt |-> NoTime ]
    IN  [ error |-> "", store |-> s \cup { l }, link |-> l ]

\* Mutant of StoreCreate: an upsert, which replaces the row that has the code.
StoreCreateUpsert(s, id, t, shortCode, targetUrl) ==
    LET l == [ id |-> id, shortCode |-> shortCode, targetUrl |-> targetUrl,
               totalClicks |-> 0, createdAt |-> t, lastClickedAt |-> NoTime ]
    IN  [ error |-> "",
          store |-> { o \in s : o.shortCode # shortCode } \cup { l },
          link |-> l ]

\* Mutant of StoreCreate: an insert that, finding the code stored, writes
\* its data over the row before it reports P2002.
StoreCreateOverwrites(s, id, t, shortCode, targetUrl) ==
    IF ShortCodeTaken(s, shortCode)
    THEN LET old == CHOOSE l \in s : l.shortCode = shortCode
             new == [ old EXCEPT !.targetUrl = targetUrl, !.totalClicks = 0 ]
         IN  [ error |-> "P2002", store |-> (s \ { old }) \cup { new },
               link |-> NoLink ]
    ELSE LET l == [ id |-> id, shortCode |-> shortCode, targetUrl |-> targetUrl,
                    totalClicks |-> 0, createdAt |-> t, lastClickedAt |-> NoTime ]
         IN  [ error |-> "", store |-> s \cup { l }, link |-> l ]

\* prisma.link.create({ data: { shortCode, targetUrl, totalClicks: 0 } })
StoreCreate(s, id, t, shortCode, targetUrl) ==
    IF ShortCodeTaken(s, shortCode)
    THEN [ error |-> "P2002", store |-> s, link |-> NoLink ]
    ELSE LET d == LinkDefaults(id, t)
             l == [ id |-> d.id, shortCode |-> shortCode, targetUrl |-> targetUrl,
                    totalClicks |-> 0, createdAt |-> d.createdAt,
                    lastClickedAt |-> d.lastClickedAt ]
         IN  [ error |-> "", store |-> s \cup { l }, link |-> l ]

\* Mutant of StoreUpdate: `totalClicks: 1` in place of `{ increment: 1 }`.
StoreUpdateSet(s, code, lastClickedAt) ==
    IF ~ShortCodeTaken(s, code)
    THEN [ error |-> "P2025", store |-> s, link |-> NoLink ]
    ELSE LET old == CHOOSE l \in s : l.shortCode = code
             new == [ old EXCEPT !.totalClicks = 1,
                                 !.lastClickedAt = lastClickedAt ]
         IN  [ error |-> "", store |-> (s \ { old }) \cup { new }, link |-> new ]

\* Mutant of StoreUpdate: `{ increment: 2 }`.
StoreUpdateByTwo(s, code, lastClickedAt) ==
    IF ~ShortCodeTaken(s, code)
    THEN [ error |-> "P2025", store |-> s, link |-> NoLink ]
    ELSE LET old == CHOOSE l \in s : l.shortCode = code
             new == [ old EXCEPT !.totalClicks = @ + 2,
                                 !.lastClickedAt = lastClickedAt ]
         IN  [ error |-> "", store |-> (s \ { old }) \cup { new }, link |-> new ]

\* Mutant of StoreUpdate: the increment without the lastClickedAt.
StoreUpdateNoStamp(s, code, lastClickedAt) ==
    IF ~ShortCodeTaken(s, code)
    THEN [ error |-> "P2025", store |-> s, link |-> NoLink ]
    ELSE LET old == CHOOSE l \in s : l.shortCode = code
             new == [ old EXCEPT !.totalClicks = @ + 1 ]
         IN  [ error |-> "", store |-> (s \ { old }) \cup { new }, link |-> new ]

\* Mutant of StoreUpdate: the update without its `where`, on every row.
StoreUpdateMany(s, code, lastClickedAt) ==
    IF ~ShortCodeTaken(s, code)
    THEN [ error |-> "P2025", store |-> s, link |-> NoLink ]
    ELSE LET old == CHOOSE l \in s : l.shortCode = code
             upd(l) == [ l EXCEPT !.totalClicks = @ + 1,
                                  !.lastClickedAt = lastClickedAt ]
         IN  [ error |-> "", store |-> { upd(l) : l \in s }, link |-> upd(old) ]

\* Mutant of StoreUpdate: an upsert, which inserts the row it does not find.
StoreUpdateUpsert(s, code, lastClickedAt) ==
    IF ~ShortCodeTaken(s, code)
    THEN LET new == [ id |-> 0, shortCode |-> code, targetUrl |-> << >>,
                      totalClicks |-> 1, createdAt |-> lastClickedAt,
                      lastClickedAt |-> lastClickedAt ]
         IN  [ error |-> "", store |-> s \cup { new }, link |-> new ]
    ELSE LET old == CHOOSE l \in s : l.shortCode = code
             new == [ old EXCEPT !.totalClicks = @ + 1,
                                 !.lastClickedAt = lastClickedAt ]
         IN  [ error |-> "", store |-> (s \ { old }) \cup { new }, link |-> new ]

\* prisma.link.update({ where: { shortCode: code },
\*     data: { totalClicks: { increment: 1 }, lastClickedAt } })
StoreUpdate(s, code, lastClickedAt) ==
    IF ~ShortCodeTaken(s, code)
    THEN [ error |-> "P2025", store |-> s, link |-> NoLink ]
    ELSE LET old == CHOOSE l \in s : l.shortCode = code
             new == [ old EXCEPT !.totalClicks = @ + 1,
                                 !.lastClickedAt = lastClickedAt ]
         IN  [ error |-> "", store |-> (s \ { old }) \cup { new }, link |-> new ]

\* Mutant of StoreDelete: a delete that reports the row removed and leaves
\* it in the table.
StoreDeleteSoft(s, code) ==
    IF ~ShortCodeTaken(s, code)
    THEN [ error |-> "P2025", store |-> s, link |-> NoLink ]
    ELSE [ error |-> "", store |-> s, link |-> CHOOSE l \in s : l.shortCode = code ]

\* prisma.link.delete({ where: { shortCode: code } })
StoreDelete(s, code) ==
    IF ~ShortCodeTaken(s, code)
    THEN [ error |-> "P2025", store |-> s, link |-> NoLink ]
    ELSE LET old == CHOOSE l \in s : l.shortCode = code
         IN  [ error |-> "", store |-> s \ { old }, link |-> old ]

\* A store call that fails for another reason (connection loss, timeout).
StoreFailure(s) == [ error |-> "P1001", store |-> s, link |-> NoLink ]

(* ------------------------------- routing ------------------------------- *)

\* Mutant of RouteGet: the route /:code registered before the others.
RouteGetRedirectFirst(path) ==
    LET p == [k \in 1..Len(path) |-> LowerCase(path[k])]
    IN  IF Len(path) = 1 THEN "redirect"
        ELSE IF path = << >> THEN "dashboard"
        ELSE IF Len(path) = 2 /\ p[1] = Str_code THEN "statsPage"
        ELSE IF p = << Str_healthz >> THEN "healthz"
        ELSE IF p = << Str_api, Str_links >> THEN "list"
        ELSE IF Len(path) = 3 /\ p[1] = Str_api /\ p[2] = Str_links THEN "get"
        ELSE "none"

\* The GET routes of the app in registration order; `path` is the sequence
\* of the segments of the request path.  Express matches the literal
\* segments without regard to case.
RouteGet(path) ==
    LET p == [k \in 1..Len(path) |-> LowerCase(path[k])]
    IN  IF path = << >> THEN "dashboard"
        ELSE IF Len(path) = 2 /\ p[1] = Str_code THEN "statsPage"
        ELSE IF p = << Str_healthz >> THEN "healthz"
        ELSE IF p = << Str_api, Str_links >> THEN "list"
        ELSE IF Len(path) = 3 /\ p[1] = Str_api /\ p[2] = Str_links THEN "get"
        ELSE IF Len(path) = 1 THEN "redirect"
        ELSE "none"

\* The path of GET /<code>.
PathOf(code) == IF code = << >> THEN << >> ELSE << code >>

(* -------------------------------- state -------------------------------- *)

VARIABLES
    store,      \* the Link table: a set of rows
    nextId,     \* the id the next row gets
    now,        \* the wall clock
    reqs,       \* the requests in flight, by slot
    resp,       \* the response sent by the last step, if it sent one
    ledger,     \* what the responses have told the clients: by row id, the
                \* shortCode answered 201 and not answered 204 since, and the
                \* number of redirects answered 302 on it
    gone        \* of the codes watched, those answered 204 and not
                \* answered 201 since

vars == << store, nextId, now, reqs, resp, ledger, gone >>

Slots == 1..MaxInflight

Idle ==
    [ route |-> "idle", pc |-> "idle", path |-> << >>, targetUrl |-> Undefined,
      customCode |-> Undefined, code |-> Undefined, i |-> 0, lastClickedAt |-> NoTime ]

NoResponse ==
    [ route |-> "none", path |-> << >>, targetUrl |-> Undefined,
      customCode |-> Undefined,
      code |-> Undefined, status |-> 0, location |-> Undefined, link |-> NoLink,
      links |-> << >>, fault |-> FALSE ]

Init ==
    /\ store = { }
    /\ nextId = 1
    /\ now = 1
    /\ reqs = [s \in Slots |-> Idle]
    /\ resp = NoResponse
    /\ ledger = << >>
    /\ gone = { }

\* res.status(status)...: the response to request `r`.
Respond(r, status, location, link, fault) ==
    resp' = [ route |-> r.route, path |-> r.path, targetUrl |-> r.targetUrl,
              customCode |-> r.customCode, code |-> r.code, status |-> status,
              location |-> location, link |-> link, links |-> << >>,
              fault |-> fault ]

\* res.status(status).json(allLinks): the response of the list handler.
RespondList(r, status, links, fault) ==
    resp' = [ route |-> r.route, path |-> r.path, targetUrl |-> r.targetUrl,
              customCode |-> r.customCode, code |-> r.code, status |-> status,
              location |-> Undefined, link |-> NoLink, links |-> links,
              fault |-> fault ]

\* A step that sends no response.
Silent == resp' = NoResponse

\* A new request is taken when no response is waiting to leave, by the
\* first idle slot.
Admits(s) ==
    /\ resp = NoResponse
    /\ reqs[s] = Idle
    /\ \A q \in 1..(s - 1) : reqs[q] # Idle

\* A handler continues at slot s on `route` at `pc`.
Continues(s, route, pc) ==
    /\ resp = NoResponse
    /\ reqs[s].route = route
    /\ reqs[s].pc = pc

InFlight(route) == Cardinality({ s \in Slots : reqs[s].route = route })

RECURSIVE MaxOf(_)
MaxOf(S) ==
    IF S = { } THEN 0
    ELSE LET x == CHOOSE y \in S : TRUE
             m == MaxOf(S \ { x })
         IN  IF x > m THEN x ELSE m

(* ------------------------- POST /api/links ----------------------------- *)

\* The handler from the request to its first store call: the validation of
\* targetUrl (A) and of customCode (B), or the first generated candidate.
CreateRequest(s, targetUrl, customCode, r, bytes) ==
    LET req == [ Idle EXCEPT !.route = "create",
                             !.path = << Str_api, Str_links >>,
                             !.targetUrl = targetUrl,
                             !.customCode = customCode ]
    IN  /\ Admits(s)
        /\ IF ~Truthy(targetUrl) \/ ~URL_REGEX(targetUrl)
           THEN /\ Respond(req, 400, Undefined, NoLink, FALSE)
                /\ UNCHANGED reqs
           ELSE IF Truthy(customCode)
           THEN IF ~CODE_REGEX(customCode)
                THEN /\ Respond([req EXCEPT !.code = customCode], 400, Undefined,
                                NoLink, FALSE)
                     /\ UNCHANGED reqs
                ELSE /\ nextId + InFlight("create") <= MaxIds
                     /\ reqs' = [reqs EXCEPT ![s] =
                                    [req EXCEPT !.pc = "create", !.code = customCode]]
                     /\ Silent
           ELSE /\ nextId + InFlight("create") <= MaxIds
                /\ reqs' = [reqs EXCEPT ![s] =
                               [req EXCEPT !.pc = "lookup",
                                           !.code = generateRandomCode(r, bytes)]]
                /\ Silent
        /\ UNCHANGED << store, nextId, now, ledger, gone >>

\* Mutant of LoopContinues: `i < 6`.
LoopContinues6(i) == i + 1 < 6

\* `i++; i < 5` of the retry loop, for the turn `i` that found its
\* candidate in use.
LoopContinues(i) == i + 1 < 5

\* One turn of the retry loop: the findUnique of the candidate, then either
\* the way to the insert, the next candidate, or the 500 after 5 candidates.
CreateLookup(s, r, bytes) ==
    LET req == reqs[s]
        existingLink == StoreFindUnique(store, req.code)
    IN  /\ Continues(s, "create", "lookup")
        /\ IF existingLink = NoLink
           THEN /\ reqs' = [reqs EXCEPT ![s].pc = "create"]
                /\ Silent
           ELSE IF LoopContinues(req.i)
           THEN /\ reqs' = [reqs EXCEPT ![s].i = @ + 1,
                                        ![s].code = generateRandomCode(r, bytes)]
                /\ Silent
           ELSE /\ reqs' = [reqs EXCEPT ![s] = Idle]
                /\ Respond(req, 500, Undefined, NoLink, FALSE)
        /\ UNCHANGED << store, nextId, now, ledger, gone >>

\* A findUnique of the retry loop that fails: the call is outside the
\* try block and the handler's promise rejects.  What becomes of the
\* rejection is the framework's: Express 4 drops it and the request is never
\* answered, Express 5 (`handled`) hands it to its error handler, which
\* answers 500.
CreateLookupFails(s, handled) ==
    /\ Continues(s, "create", "lookup")
    /\ reqs' = [reqs EXCEPT ![s] = Idle]
    /\ IF handled
       THEN Respond(reqs[s], 500, Undefined, NoLink, TRUE)
       ELSE Silent
    /\ UNCHANGED << store, nextId, now, ledger, gone >>

\* Mutant of CreateStatus: no P2002 branch.
CreateStatusNoConflict(error) == IF error = "" THEN 201 ELSE 500

\* The status of the insert's outcome (C): 201, 409 on P2002, 500 otherwise.
CreateStatus(error) ==
    IF error = "" THEN 201 ELSE IF error = "P2002" THEN 409 ELSE 500

\* The insert and the response.
CreateInsert(s, fault) ==
    LET req == reqs[s]
        out == IF fault THEN StoreFailure(store)
               ELSE StoreCreate(store, nextId, now, req.code, req.targetUrl)
        status == CreateStatus(out.error)
    IN  /\ Continues(s, "create", "create")
        /\ store' = out.store
        /\ nextId' = IF out.error = "" THEN nextId + 1 ELSE nextId
        /\ reqs' = [reqs EXCEPT ![s] = Idle]
        /\ Respond(req, status, Undefined, out.link, fault)
        /\ ledger' = IF status = 201
                     THEN (out.link.id :> [ shortCode |-> req.code, clicks |-> 0 ])
                              @@ ledger
                     ELSE ledger
        /\ gone' = IF status = 201 THEN gone \ { req.code } ELSE gone
        /\ UNCHANGED now

(* ----------------------- DELETE /api/links/:code ----------------------- *)

DeleteRequest(s, code) ==
    /\ Admits(s)
    /\ reqs' = [reqs EXCEPT ![s] =
                   [Idle EXCEPT !.route = "delete", !.pc = "delete",
                                !.path = << Str_api, Str_links, code >>,
                                !.code = code]]
    /\ Silent
    /\ UNCHANGED << store, nextId, now, ledger, gone >>

\* Mutant of DeleteStatus: P2025 taken as done, 204.
DeleteStatusIdempotent(error) ==
    IF error = "" \/ error = "P2025" THEN 204 ELSE 500

\* The status of the delete's outcome: 204, 404 on P2025, 500 otherwise.
DeleteStatus(error) ==
    IF error = "" THEN 204 ELSE IF error = "P2025" THEN 404 ELSE 500

DeleteExec(s, fault) ==
    LET req == reqs[s]
        out == IF fault THEN StoreFailure(store) ELSE StoreDelete(store, req.code)
        status == DeleteStatus(out.error)
        closed == { id \in DOMAIN ledger : ledger[id].shortCode = req.code }
    IN  /\ Continues(s, "delete", "delete")
        /\ store' = out.store
        /\ reqs' = [reqs EXCEPT ![s] = Idle]
        /\ Respond(req, status, Undefined, NoLink, fault)
        /\ ledger' = IF status = 204
                     THEN [id \in DOMAIN ledger \ closed |-> ledger[id]]
                     ELSE ledger
        /\ gone' = IF status = 204
                   THEN gone \cup ({ req.code } \cap WatchedCodes)
                   ELSE gone
        /\ UNCHANGED << nextId, now >>

(* --------------------------- GET /api/links ---------------------------- *)

ListRequest(s) ==
    /\ Admits(s)
    /\ RouteGet(<< Str_api, Str_links >>) = "list"
    /\ reqs' = [reqs EXCEPT ![s] =
                   [Idle EXCEPT !.route = "list", !.pc = "findMany",
                                !.path = << Str_api, Str_links >>]]
    /\ Silent
    /\ UNCHANGED << store, nextId, now, ledger, gone >>

\* The findMany and the response: 200 with the rows, 500 on a failure.
ListFindMany(s, fault) ==
    /\ Continues(s, "list", "findMany")
    /\ reqs' = [reqs EXCEPT ![s] = Idle]
    /\ IF fault
       THEN RespondList(reqs[s], 500, << >>, TRUE)
       ELSE \E allLinks \in StoreFindMany(store) :
                RespondList(reqs[s], 200, allLinks, FALSE)
    /\ UNCHANGED << store, nextId, now, ledger, gone >>

(* ------------------------ GET /api/links/:code ------------------------- *)

LinkRequest(s, code) ==
    /\ Admits(s)
    /\ RouteGet(<< Str_api, Str_links, code >>) = "get"
    /\ reqs' = [reqs EXCEPT ![s] =
                   [Idle EXCEPT !.route = "get", !.pc = "findUnique",
                                !.path = << Str_api, Str_links, code >>,
                                !.code = code]]
    /\ Silent
    /\ UNCHANGED << store, nextId, now, ledger, gone >>

\* The status of the lookup's outcome: 200, 404 on null, 500 on a failure.
LinkStatus(error, link) ==
    IF error # "" THEN 500 ELSE IF link = NoLink THEN 404 ELSE 200

\* The findUnique and the response.
LinkFindUnique(s, fault) ==
    LET req == reqs[s]
        out == IF fault THEN StoreFailure(store)
               ELSE [ error |-> "", store |-> store,
                      link |-> StoreFindUnique(store, req.code) ]
        status == LinkStatus(out.error, out.link)
    IN  /\ Continues(s, "get", "findUnique")
        /\ reqs' = [reqs EXCEPT ![s] = Idle]
        /\ Respond(req, status, Undefined, out.link, fault)
        /\ UNCHANGED << store, nextId, now, ledger, gone >>

(* ------------------------------ GET /<code> ---------------------------- *)

\* A GET of a one-segment path (or of "/"): the route that matches first
\* answers it.  /healthz and / answer at once; the redirect handler builds
\* the update, `new Date()` included, and awaits it.
GetRequest(s, code) ==
    LET route == RouteGet(PathOf(code))
        req == [ Idle EXCEPT !.route = route, !.path = PathOf(code),
                             !.code = code ]
    IN  /\ Admits(s)
        /\ IF route = "redirect"
           THEN /\ MaxOf({ l.totalClicks : l \in store }) + InFlight("redirect")
                       < MaxClicks
                /\ reqs' = [reqs EXCEPT ![s] =
                               [req EXCEPT !.pc = "update", !.lastClickedAt = now]]
                /\ Silent
           ELSE /\ Respond(req, 200, Undefined, NoLink, FALSE)
                /\ UNCHANGED reqs
        /\ UNCHANGED << store, nextId, now, ledger, gone >>

\* A GET of any path: the first route of the registration order that
\* matches the path answers it, and Express answers 404 when none does.
\* The pages and /healthz answer at once; the three handlers that call the
\* store build their call and await it.  :code is the last segment.
GetPath(s, path) ==
    LET route == RouteGet(path)
        req == [ Idle EXCEPT !.route = route, !.path = path,
                             !.code = IF route \in { "statsPage", "get", "redirect" }
                                      THEN path[Len(path)] ELSE Undefined ]
    IN  /\ Admits(s)
        /\ CASE route = "redirect" ->
                   /\ MaxOf({ l.totalClicks : l \in store }) + InFlight("redirect")
                          < MaxClicks
                   /\ reqs' = [reqs EXCEPT ![s] =
                                  [req EXCEPT !.pc = "update", !.lastClickedAt = now]]
                   /\ Silent
             [] route = "list" ->
                   /\ reqs' = [reqs EXCEPT ![s] = [req EXCEPT !.pc = "findMany"]]
                   /\ Silent
             [] route = "get" ->
                   /\ reqs' = [reqs EXCEPT ![s] = [req EXCEPT !.pc = "findUnique"]]
                   /\ Silent
             [] route \in { "dashboard", "statsPage", "healthz" } ->
                   /\ Respond(req, 200, Undefined, NoLink, FALSE)
                   /\ UNCHANGED reqs
             [] OTHER ->
                   /\ Respond(req, 404, Undefined, NoLink, FALSE)
                   /\ UNCHANGED reqs
        /\ UNCHANGED << store, nextId, now, ledger, gone >>

\* The status of the update's outcome: 302, 404 on P2025, 500 otherwise.
RedirectStatus(error) ==
    IF error = "" THEN 302 ELSE IF error = "P2025" THEN 404 ELSE 500

\* The atomic update and the response.
RedirectUpdate(s, fault) ==
    LET req == reqs[s]
        out == IF fault THEN StoreFailure(store)
               ELSE StoreUpdate(store, req.code, req.lastClickedAt)
        status == RedirectStatus(out.error)
        id == out.link.id
    IN  /\ Continues(s, "redirect", "update")
        /\ store' = out.store
        /\ reqs' = [reqs EXCEPT ![s] = Idle]
        /\ Respond(req, status,
                   IF status = 302 THEN out.link.targetUrl ELSE Undefined,
                   out.link, fault)
        /\ ledger' = IF status = 302 /\ id \in DOMAIN ledger
                     THEN [ledger EXCEPT ![id].clicks = @ + 1]
                     ELSE ledger
        /\ UNCHANGED << nextId, now, gone >>

(* --------------------------- responses, time --------------------------- *)

\* The response leaves the server.
Deliver ==
    /\ resp # NoResponse
    /\ resp' = NoResponse
    /\ UNCHANGED << store, nextId, now, reqs, ledger, gone >>

Tick ==
    /\ resp = NoResponse
    /\ now < MaxClock
    /\ now' = now + 1
    /\ UNCHANGED << store, nextId, reqs, resp, ledger, gone >>

\* Requests in flight together, on the inputs that meet in one code.
Next ==
    \/ \E s \in Slots, u \in HotTargetUrls, c \in HotCustomCodes,
          r \in RandomLengths, b \in HotRandomBytes : CreateRequest(s, u, c, r, b)
    \/ \E s \in Slots, r \in RandomLengths, b \in HotRandomBytes :
          CreateLookup(s, r, b)
    \/ \E s \in Slots, handled \in BOOLEAN : CreateLookupFails(s, handled)
    \/ \E s \in Slots, fault \in BOOLEAN : CreateInsert(s, fault)
    \/ \E s \in Slots, c \in HotCodeParams : DeleteRequest(s, c)
    \/ \E s \in Slots, fault \in BOOLEAN : DeleteExec(s, fault)
    \/ \E s \in Slots, c \in HotCodeParams \cup { Str_healthz, << >> } :
          GetRequest(s, c)
    \/ \E s \in Slots, fault \in BOOLEAN : RedirectUpdate(s, fault)
    \/ Deliver

Spec == Init /\ [][Next]_vars

\* One request at a time, on every input.
NextInputs ==
    \/ \E u \in TargetUrls, c \in CustomCodes,
          r \in RandomLengths, b \in RandomBytes : CreateRequest(1, u, c, r, b)
    \/ \E r \in RandomLengths, b \in RandomBytes : CreateLookup(1, r, b)
    \/ \E handled \in BOOLEAN : CreateLookupFails(1, handled)
    \/ \E fault \in BOOLEAN : CreateInsert(1, fault)
    \/ \E c \in CodeParams : DeleteRequest(1, c)
    \/ \E fault \in BOOLEAN : DeleteExec(1, fault)
    \/ \E c \in CodeParams \cup { << >> } : GetRequest(1, c)
    \/ \E fault \in BOOLEAN : RedirectUpdate(1, fault)
    \/ Deliver

SpecInputs == Init /\ [][NextInputs]_vars

\* Requests in flight together under a clock that runs.
NextTimed == Next \/ Tick
SpecTimed == Init /\ [][NextTimed]_vars

\* Reads in flight together with the writes, on two custom codes.
NextReads ==
    \/ \E s \in Slots, c \in ReadCustomCodes :
          CreateRequest(s, Str_https_e_co, c, 0, Bytes_airock)
    \/ \E s \in Slots, fault \in BOOLEAN : CreateInsert(s, fault)
    \/ \E s \in Slots, c \in ReadCustomCodes : DeleteRequest(s, c)
    \/ \E s \in Slots, fault \in BOOLEAN : DeleteExec(s, fault)
    \/ \E s \in Slots : ListRequest(s)
    \/ \E s \in Slots, fault \in BOOLEAN : ListFindMany(s, fault)
    \/ \E s \in Slots, c \in ReadCustomCodes : LinkRequest(s, c)
    \/ \E s \in Slots, fault \in BOOLEAN : LinkFindUnique(s, fault)
    \/ \E s \in Slots, c \in ReadCustomCodes : GetRequest(s, c)
    \/ \E s \in Slots, fault \in BOOLEAN : RedirectUpdate(s, fault)
    \/ Deliver

SpecReads == Init /\ [][NextReads]_vars

\* One request at a time under a clock that runs.
NextClock ==
    \/ \E c \in ReadCustomCodes :
          CreateRequest(1, Str_https_e_co, c, 0, Bytes_airock)
    \/ \E fault \in BOOLEAN : CreateInsert(1, fault)
    \/ \E c \in ReadCustomCodes : DeleteRequest(1, c)
    \/ \E fault \in BOOLEAN : DeleteExec(1, fault)
    \/ ListRequest(1)
    \/ \E fault \in BOOLEAN : ListFindMany(1, fault)
    \/ \E c \in ReadCodeParams : LinkRequest(1, c)
    \/ \E fault \in BOOLEAN : LinkFindUnique(1, fault)
    \/ \E c \in ReadCustomCodes : GetRequest(1, c)
    \/ \E fault \in BOOLEAN : RedirectUpdate(1, fault)
    \/ Deliver
    \/ Tick

SpecClock == Init /\ [][NextClock]_vars

\* GET requests on every shape of path, next to the creation of the rows
\* "healthz" and "airocks7".
NextRoutes ==
    \/ \E s \in Slots, c \in RouteCustomCodes :
          CreateRequest(s, Str_https_e_co, c, 0, Bytes_airock)
    \/ \E s \in Slots, fault \in BOOLEAN : CreateInsert(s, fault)
    \/ \E s \in Slots, path \in RoutePaths : GetPath(s, path)
    \/ \E s \in Slots, fault \in BOOLEAN : ListFindMany(s, fault)
    \/ \E s \in Slots, fault \in BOOLEAN : LinkFindUnique(s, fault)
    \/ \E s \in Slots, fault \in BOOLEAN : RedirectUpdate(s, fault)
    \/ Deliver

SpecRoutes == Init /\ [][NextRoutes]_vars

\* The store call the handler at slot s awaits returns or fails.
StoreReturns(s) ==
    \/ \E r \in RandomLengths, b \in HotRandomBytes : CreateLookup(s, r, b)
    \/ \E handled \in BOOLEAN : CreateLookupFails(s, handled)
    \/ \E fault \in BOOLEAN : CreateInsert(s, fault)
    \/ \E fault \in BOOLEAN : DeleteExec(s, fault)
    \/ \E fault \in BOOLEAN : ListFindMany(s, fault)
    \/ \E fault \in BOOLEAN : LinkFindUnique(s, fault)
    \/ \E fault \in BOOLEAN : RedirectUpdate(s, fault)

\* Every route, requests in flight together.
NextLive ==
    \/ Next
    \/ \E s \in Slots : ListRequest(s)
    \/ \E s \in Slots, c \in HotCodeParams : LinkRequest(s, c)
    \/ \E s \in Slots : StoreReturns(s)

\* Every store call returns or fails in the end, and every response leaves.
SpecLive ==
    /\ Init
    /\ [][NextLive]_vars
    /\ \A s \in Slots : SF_vars(StoreReturns(s))
    /\ WF_vars(Deliver)

(* ------------------------------ properties ----------------------------- *)

\* Some row has the shortCode c.
Stored(c) == \E l \in store : l.shortCode = c

\* The row that has the shortCode c.
RowOf(c) == CHOOSE l \in store : l.shortCode = c

\* The pattern [A-Za-z0-9]{6,8}.
MatchesCodePattern(c) ==
    /\ Len(c) \in { 6, 7, 8 }
    /\ \A k \in 1..Len(c) : c[k] \in Alnum

\* u starts with http:// or https://.
HasHttpPrefix(u) ==
    LET starts(p) == Len(u) >= Len(p) /\ LowerCase(SubSeq(u, 1, Len(p))) = p
    IN  \/ starts(<< "h","t","t","p",":","/","/" >>)
        \/ starts(<< "h","t","t","p","s",":","/","/" >>)

\* u holds no whitespace character.
NoWhitespace(u) == \A k \in 1..Len(u) : u[k] \notin WhiteSpace

\* This step is the insert of the Create request at slot s, and answers it.
InsertStep(s) ==
    /\ reqs[s].route = "create"
    /\ reqs[s].pc = "create"
    /\ reqs'[s] = Idle
    /\ resp' # NoResponse

\* This step is the update of the redirect request at slot s, and answers it.
UpdateStep(s) ==
    /\ reqs[s].route = "redirect"
    /\ reqs[s].pc = "update"
    /\ reqs'[s] = Idle
    /\ resp' # NoResponse

\* C1: no lost updates.  In every reachable state every stored row's
\* totalClicks is the number of redirects answered 302 on that row since the
\* Create that was answered 201 with it.
C1_NoLostUpdates ==
    \A l \in store :
        /\ l.id \in DOMAIN ledger
        /\ l.totalClicks = ledger[l.id].clicks

\* One of two redirects in flight on the same code has been answered 302 and
\* counted; the other is still in flight.
C1_Witness ==
    /\ resp.route = "redirect"
    /\ resp.status = 302
    /\ resp.link.totalClicks = 1
    /\ \E s \in Slots : reqs[s].route = "redirect" /\ reqs[s].code = resp.code

\* C2: in every reachable state no two stored rows have the same shortCode.
C2_UniqueShortCode ==
    \A l1, l2 \in store : l1.shortCode = l2.shortCode => l1 = l2

\* A second row has just been inserted next to the first.
C2_Witness ==
    /\ resp.route = "create"
    /\ resp.status = 201
    /\ Cardinality(store) = 2

\* Every code answered 201 and not answered 204 since has its row in the
\* store, and no code has two such answers.
LedgerStored ==
    \A id \in DOMAIN ledger :
        /\ \E l \in store : l.id = id /\ l.shortCode = ledger[id].shortCode
        /\ \A id2 \in DOMAIN ledger :
               ledger[id2].shortCode = ledger[id].shortCode => id2 = id

\* C3: Create requests that race to insert the same shortCode.  An insert
\* the store executes is answered 409 when the code is stored and 201, with
\* its row stored, when it is not; so of the inserts of one code, with no
\* Delete of it in between, exactly one is answered 201 and the others 409.
C3_RaceOneWinner ==
    [][ /\ LedgerStored'
        /\ \A s \in Slots :
               InsertStep(s) /\ ~resp'.fault =>
                   IF Stored(reqs[s].code)
                   THEN resp'.status = 409
                   ELSE /\ resp'.status = 201
                        /\ resp'.link \in store'
                        /\ resp'.link.shortCode = reqs[s].code ]_vars

\* A Create with an auto-generated code is answered 409: its candidate
\* passed the pre-check and was inserted by another request before its own
\* insert.
C3_Witness ==
    /\ resp.route = "create"
    /\ resp.status = 409
    /\ ~Truthy(resp.customCode)
    /\ Stored(resp.code)

\* C4: a Create with a customCode that is stored is answered 409 and leaves
\* the store as it was: the existing row keeps every field and no row is
\* added.
C4_DuplicateUntouched ==
    [][ \A s \in Slots :
            /\ InsertStep(s)
            /\ Truthy(reqs[s].customCode)
            /\ Stored(reqs[s].customCode)
            /\ ~resp'.fault
            => /\ resp'.status = 409
               /\ store' = store
               /\ nextId' = nextId ]_vars

\* The second Create of a customCode has been answered 409, and the row of
\* the first, clicked since, is in the store.
C4_Witness ==
    /\ resp.route = "create"
    /\ resp.status = 409
    /\ Truthy(resp.customCode)
    /\ Stored(resp.customCode)
    /\ RowOf(resp.customCode).totalClicks > 0

\* C5: a Create without customCode that is answered 201 returns a shortCode
\* matching [A-Za-z0-9]{6,8}, whatever the random source has drawn, and no
\* other row has that code.
C5_AutoCodeMatchesPattern ==
    resp.route = "create" /\ ~Truthy(resp.customCode) /\ resp.status = 201
        => /\ MatchesCodePattern(resp.link.shortCode)
           /\ \A l \in store : l.shortCode = resp.link.shortCode => l = resp.link

\* C6: a Create with a customCode matching [A-Za-z0-9]{6,8} that is not
\* stored, and a targetUrl the URL check accepts, is answered 201, and the
\* row stored and returned has that shortCode and targetUrl, totalClicks 0
\* and no lastClickedAt.
C6_CustomCodeEchoed ==
    [][ /\ resp' # NoResponse
        /\ resp'.route = "create"
        /\ Truthy(resp'.targetUrl)
        /\ URL_REGEX(resp'.targetUrl)
        /\ Truthy(resp'.customCode)
        /\ MatchesCodePattern(resp'.customCode)
        /\ ~Stored(resp'.customCode)
        /\ ~resp'.fault
        => /\ resp'.status = 201
           /\ resp'.link.shortCode = resp'.customCode
           /\ resp'.link.targetUrl = resp'.targetUrl
           /\ resp'.link.totalClicks = 0
           /\ resp'.link.lastClickedAt = NoTime
           /\ resp'.link \in store' ]_vars

\* The Create of README test 3 has been answered 201 with "airocks7".
C6_Witness ==
    /\ resp.route = "create"
    /\ resp.status = 201
    /\ resp.customCode = Str_airocks7
    /\ resp.link.shortCode = Str_airocks7
    /\ resp.link \in store

\* The targetUrl is missing or fails the URL syntax rule: the http:// or
\* https:// prefix, no embedded whitespace.
InvalidTarget(u) == ~Truthy(u) \/ ~HasHttpPrefix(u) \/ ~NoWhitespace(u)

\* C7: a Create with a missing or invalid targetUrl, or with a supplied
\* customCode that does not match [A-Za-z0-9]{6,8}, is answered 400 and
\* leaves the store as it was.  A customCode is supplied when the handler
\* takes it as one (`if (customCode)`): "" is taken as none.
C7_InvalidRejected ==
    [][ /\ resp' # NoResponse
        /\ resp'.route = "create"
        /\ \/ InvalidTarget(resp'.targetUrl)
           \/ Truthy(resp'.customCode) /\ ~MatchesCodePattern(resp'.customCode)
        => /\ resp'.status = 400
           /\ store' = store ]_vars

\* C8: in every reachable state every stored row's targetUrl starts with
\* http:// or https:// and holds no whitespace character.
C8_StoredUrlWellFormed ==
    \A l \in store : HasHttpPrefix(l.targetUrl) /\ NoWhitespace(l.targetUrl)

\* This step answers a GET of the path /<code>.
GetAnswered ==
    /\ resp' # NoResponse
    /\ resp'.route \in { "redirect", "healthz", "dashboard" }

\* C9: a GET /<shortCode> of a stored row, whatever its shortCode, is
\* answered 302 with the row's targetUrl as Location and raises the row's
\* totalClicks by 1.
C9_StoredCodeRedirects ==
    [][ GetAnswered /\ Stored(resp'.code) /\ ~resp'.fault
        => /\ resp'.status = 302
           /\ resp'.location = RowOf(resp'.code).targetUrl
           /\ \E l \in store' :
                  /\ l.shortCode = resp'.code
                  /\ l.totalClicks = RowOf(resp'.code).totalClicks + 1 ]_vars

\* C10: a GET that the redirect handler takes, on a code that is not stored,
\* is answered 404 and changes nothing: no row is created or changed.
C10_AbsentCodeNotFound ==
    [][ \A s \in Slots :
            UpdateStep(s) /\ ~Stored(reqs[s].code) /\ ~resp'.fault
            => /\ resp'.status = 404
               /\ store' = store
               /\ nextId' = nextId
               /\ ledger' = ledger ]_vars

\* A redirect has been answered 404 after a row was created and deleted:
\* the store is empty again.
C10_Witness ==
    /\ resp.route = "redirect"
    /\ resp.status = 404
    /\ resp.code \in Codes
    /\ nextId > 1
    /\ store = { }

\* This step is the delete of the Delete request at slot s, and answers it.
DeleteStep(s) ==
    /\ reqs[s].route = "delete"
    /\ reqs[s].pc = "delete"
    /\ reqs'[s] = Idle
    /\ resp' # NoResponse

\* This step is the lookup of the GET /api/links/:code request at slot s,
\* and answers it.
LinkStep(s) ==
    /\ reqs[s].route = "get"
    /\ reqs[s].pc = "findUnique"
    /\ reqs'[s] = Idle
    /\ resp' # NoResponse

\* C11: a DELETE /api/links/:code on a stored code is answered 204 and
\* removes the row; a code is stored again only by a Create answered 201
\* with it; and as long as it is not, every GET /:code the redirect handler
\* takes, every GET /api/links/:code and every DELETE /api/links/:code on it
\* is answered 404.
C11_DeletedStaysNotFound ==
    [][ /\ \A s \in Slots :
               /\ DeleteStep(s) /\ ~resp'.fault =>
                      IF Stored(reqs[s].code)
                      THEN /\ resp'.status = 204
                           /\ store' = store \ { RowOf(reqs[s].code) }
                           /\ ~Stored(reqs[s].code)'
                      ELSE resp'.status = 404
               /\ (UpdateStep(s) \/ LinkStep(s)) /\ ~resp'.fault
                      /\ ~Stored(reqs[s].code) => resp'.status = 404
        /\ \A l \in store' :
               ~Stored(l.shortCode) =>
                   /\ resp'.route = "create"
                   /\ resp'.status = 201
                   /\ resp'.link = l
        /\ resp' # NoResponse /\ ~resp'.fault /\ resp'.code \in gone
               /\ resp'.route \in { "redirect", "get", "delete" }
               => resp'.status = 404 ]_vars

\* The second Delete of a code has been answered 404: the first was
\* answered 204 and no Create of the code was answered 201 since.
C11_Witness ==
    /\ resp.route = "delete"
    /\ resp.status = 404
    /\ resp.code \in gone

\* A Delete and a redirect are in flight on the code c, at slots d and s.
Racing(d, s, c) ==
    /\ reqs[d].route = "delete"
    /\ reqs[d].code = c
    /\ reqs[s].route = "redirect"
    /\ reqs[s].code = c

\* C12: a Delete and a redirect in flight together on one code.  The
\* redirect that runs while the row is stored is answered 302 and its
\* increment is in the row, which stays stored until the delete; the
\* redirect that runs when the row is gone is answered 404 and changes
\* nothing; the delete of the stored row is answered 204 and removes the row
\* with all its fields, so the row is absent after both.
C12_DeleteRedirectRace ==
    [][ \A d, s \in Slots, c \in HotCodeParams :
            Racing(d, s, c) /\ ~resp'.fault =>
                /\ UpdateStep(s) /\ Stored(c) =>
                       /\ resp'.status = 302
                       /\ resp'.location = RowOf(c).targetUrl
                       /\ store' = (store \ { RowOf(c) }) \cup
                              { [ RowOf(c) EXCEPT
                                    !.totalClicks = @ + 1,
                                    !.lastClickedAt = reqs[s].lastClickedAt ] }
                /\ UpdateStep(s) /\ ~Stored(c) =>
                       /\ resp'.status = 404
                       /\ store' = store
                /\ DeleteStep(d) /\ Stored(c) =>
                       /\ resp'.status = 204
                       /\ store' = store \ { RowOf(c) } ]_vars

\* The Delete has been answered 204 while the redirect on the same code is
\* still in flight.
C12_Witness ==
    /\ resp.route = "delete"
    /\ resp.status = 204
    /\ \E s \in Slots : reqs[s].route = "redirect" /\ reqs[s].code = resp.code

\* C13: a record is the row of one id, from its insert to its delete.  Its
\* totalClicks is 0 at the insert; every step leaves it as it is or raises
\* it by exactly 1, and the step that raises it is the update of a redirect
\* on the record's code answered 302.  So it never decreases, and no Create,
\* list, GET /api/links/:code or Delete changes it.
C13_ClicksOnlyByRedirect ==
    [][ \A n \in store' :
            IF \E l \in store : l.id = n.id
            THEN LET l == CHOOSE o \in store : o.id = n.id
                 IN  \/ n.totalClicks = l.totalClicks
                     \/ /\ n.totalClicks = l.totalClicks + 1
                        /\ resp'.status = 302
                        /\ \E s \in Slots :
                               UpdateStep(s) /\ reqs[s].code = l.shortCode
            ELSE n.totalClicks = 0 ]_vars

\* A redirect has raised a record's totalClicks to 2 while the record of
\* another code, created next to it, is at 0.
C13_Witness ==
    /\ resp.route = "redirect"
    /\ resp.status = 302
    /\ resp.link.totalClicks = 2
    /\ \E l \in store : l.shortCode # resp.code /\ l.totalClicks = 0

\* C14: a GET /api/links is answered 200 with the rows of the store, every
\* row once and no other, a row of a later createdAt before a row of an
\* earlier one; when the store is empty the array is empty.
C14_ListAllNewestFirst ==
    resp.route = "list" /\ ~resp.fault =>
        /\ resp.status = 200
        /\ Len(resp.links) = Cardinality(store)
        /\ { resp.links[k] : k \in 1..Len(resp.links) } = store
        /\ \A i, j \in 1..Len(resp.links) :
               resp.links[i].createdAt > resp.links[j].createdAt => i < j
        /\ (store = { } => resp.links = << >>)

\* The list has been answered with two rows created at different times.
C14_Witness ==
    /\ resp.route = "list"
    /\ resp.status = 200
    /\ Len(resp.links) = 2
    /\ resp.links[1].createdAt > resp.links[2].createdAt

\* The handler at slot s ends in this step.
HandlerEnds(s) == reqs[s] # Idle /\ reqs'[s] = Idle

\* C15: a store call that fails with an error other than P2002 and P2025
\* is answered 500, in every handler and at every store call, the lookups
\* of the retry loop included: the response of a step whose store call
\* failed has status 500, and no handler ends without a response.
C15_StorageFailureSurfaced ==
    [][ /\ resp' # NoResponse /\ resp'.fault => resp'.status = 500
        /\ \A s \in Slots : HandlerEnds(s) => resp' # NoResponse ]_vars

\* C16: every request is answered, once.  A handler that has awaited a
\* store call ends, given that the call returns or fails; the step in which
\* a handler ends sends the response to its request; and a step sends one
\* response, to the request that ends in it or to the request it takes and
\* answers at once.
C16_EveryRequestAnswered ==
    /\ \A s \in Slots : (reqs[s] # Idle) ~> (reqs[s] = Idle)
    /\ [][ /\ \A s \in Slots :
                  HandlerEnds(s) =>
                      /\ resp' # NoResponse
                      /\ resp'.route = reqs[s].route
                      /\ resp'.code = reqs[s].code
           /\ resp' # NoResponse =>
                  /\ resp = NoResponse
                  /\ Cardinality({ s \in Slots : HandlerEnds(s) }) <= 1
                  /\ (\A s \in Slots : ~HandlerEnds(s)) => reqs' = reqs ]_vars

\* C17: no partial success.  A step that sends no response leaves the store
\* as it is; the step that answers a Create, Delete or redirect with 400,
\* 404, 409 or 500 leaves the store as it is, so the request has changed
\* nothing; the step that answers 201 has added the row it returns, the
\* step that answers 204 has removed the row of the code, and the step that
\* answers 302 has put the row it read, one click more on it, in the place
\* of the row of the code.
C17_NoPartialSuccess ==
    [][ /\ resp' = NoResponse => store' = store
        /\ resp' # NoResponse /\ resp'.route \in { "create", "delete", "redirect" } =>
               /\ resp'.status \in { 201, 204, 302, 400, 404, 409, 500 }
               /\ resp'.status \in { 400, 404, 409, 500 } => store' = store
               /\ resp'.status = 201 =>
                      /\ ~Stored(resp'.code)
                      /\ resp'.link.shortCode = resp'.code
                      /\ store' = store \cup { resp'.link }
               /\ resp'.status = 204 =>
                      /\ Stored(resp'.code)
                      /\ store' = store \ { RowOf(resp'.code) }
               /\ resp'.status = 302 =>
                      /\ Stored(resp'.code)
                      /\ resp'.link.totalClicks = RowOf(resp'.code).totalClicks + 1
                      /\ store' = (store \ { RowOf(resp'.code) })
                                       \cup { resp'.link } ]_vars

\* A redirect on a stored code has been answered 500, its update having
\* failed, and the row is at the one click it had.
C17_Witness ==
    /\ resp.route = "redirect"
    /\ resp.status = 500
    /\ resp.fault
    /\ Stored(resp.code)
    /\ RowOf(resp.code).totalClicks = 1

\* The row has a lastClickedAt exactly when it has clicks.
Whole(l) == (l.lastClickedAt = NoTime) <=> (l.totalClicks = 0)

\* C18: no torn state.  Every stored row, the row a GET /api/links/:code
\* returns and every row a GET /api/links returns has no lastClickedAt
\* exactly when its totalClicks is 0; and the step that changes one of the
\* two fields of a row is the update of a redirect on its code, which raises
\* totalClicks and sets lastClickedAt to the redirect's time at once.
C18_NoTornState ==
    /\ [] /\ \A l \in store : Whole(l)
          /\ resp.route = "get" /\ resp.status = 200 => Whole(resp.link)
          /\ resp.route = "list" =>
                 \A k \in 1..Len(resp.links) : Whole(resp.links[k])
    /\ [][ \A l \in store, n \in store' :
               /\ l.id = n.id
               /\ \/ l.totalClicks # n.totalClicks
                  \/ l.lastClickedAt # n.lastClickedAt
               => \E s \in Slots :
                      /\ UpdateStep(s)
                      /\ reqs[s].code = l.shortCode
                      /\ n.totalClicks = l.totalClicks + 1
                      /\ n.lastClickedAt = reqs[s].lastClickedAt ]_vars

\* A GET /api/links/:code has returned the row with one click and its
\* lastClickedAt while a redirect on the code is in flight.
C18_Witness ==
    /\ resp.route = "get"
    /\ resp.status = 200
    /\ resp.link.totalClicks = 1
    /\ resp.link.lastClickedAt # NoTime
    /\ \E s \in Slots : reqs[s].route = "redirect" /\ reqs[s].code = resp.code

\* C19: the checks of Create in their order.  A Create whose targetUrl is
\* missing or invalid is answered 400 whatever its customCode; a Create
\* whose customCode is supplied and does not match the pattern is answered
\* 400, and so never 409, be the code stored or not; and the step that
\* answers 400 is the step that takes the request: no store call was
\* awaited and the store is as it was.
C19_ChecksInOrder ==
    [][ resp' # NoResponse /\ resp'.route = "create" =>
            /\ InvalidTarget(resp'.targetUrl) => resp'.status = 400
            /\ Truthy(resp'.customCode) /\ ~MatchesCodePattern(resp'.customCode)
                   => resp'.status = 400
            /\ resp'.status = 400 =>
                   /\ reqs' = reqs
                   /\ \A s \in Slots : ~HandlerEnds(s)
                   /\ store' = store ]_vars

\* This step is a lookup of the retry loop at slot s that the store has
\* answered.
LookupStep(s) ==
    /\ reqs[s].route = "create"
    /\ reqs[s].pc = "lookup"
    /\ reqs'[s] # reqs[s]
    /\ ~(reqs'[s] = Idle /\ (resp' = NoResponse \/ resp'.fault))

\* C20: the retry loop of a Create without customCode.  Its turns are
\* numbered 0 to 4, so it looks up at most 5 candidates; a lookup that does
\* not find the candidate ends the loop and the candidate goes to the
\* insert; a lookup that finds it starts the next turn, and after the fifth
\* the request is answered 500, the handler ends without an insert and the
\* store is as it was.  Every turn raises the number, so the loop ends.
C20_BoundedRetry ==
    /\ [] \A s \in Slots : reqs[s].i < 5
    /\ [][ \A s \in Slots :
               LookupStep(s) =>
                   /\ store' = store
                   /\ nextId' = nextId
                   /\ IF ~Stored(reqs[s].code)
                      THEN /\ reqs'[s] = [reqs[s] EXCEPT !.pc = "create"]
                           /\ resp' = NoResponse
                      ELSE IF reqs[s].i < 4
                      THEN /\ reqs'[s].pc = "lookup"
                           /\ reqs'[s].i = reqs[s].i + 1
                           /\ resp' = NoResponse
                      ELSE /\ reqs'[s] = Idle
                           /\ resp'.route = "create"
                           /\ resp'.status = 500 ]_vars

\* A Create without customCode has been answered 500 after five candidates
\* that were all stored.
C20_Witness ==
    /\ resp.route = "create"
    /\ resp.status = 500
    /\ ~resp.fault
    /\ ~Truthy(resp.customCode)
    /\ Stored(resp.code)

\* C21: a code that was deleted can be used again.  A Create with a
\* customCode that was answered 204 and not answered 201 since, and a
\* targetUrl the URL check accepts, is answered 201, and its row is new:
\* that shortCode, totalClicks 0 and no lastClickedAt, whatever the clicks
\* of the row that was deleted.
C21_DeletedCodeReusable ==
    [][ /\ resp' # NoResponse
        /\ resp'.route = "create"
        /\ Truthy(resp'.customCode)
        /\ resp'.customCode \in gone
        /\ Truthy(resp'.targetUrl)
        /\ URL_REGEX(resp'.targetUrl)
        /\ ~resp'.fault
        => /\ resp'.status = 201
           /\ resp'.link \in store'
           /\ resp'.link.shortCode = resp'.customCode
           /\ resp'.link.totalClicks = 0
           /\ resp'.link.lastClickedAt = NoTime ]_vars

\* C22: the update of a redirect on the code c writes totalClicks and
\* lastClickedAt of the row of c and nothing else: that row keeps its id,
\* shortCode, targetUrl and createdAt, every other row is as it was, and
\* the stored codes are the same.
C22_RedirectFrame ==
    [][ \A s \in Slots :
            UpdateStep(s) =>
                /\ { n.shortCode : n \in store' } = { l.shortCode : l \in store }
                /\ Cardinality(store') = Cardinality(store)
                /\ \A l \in store :
                       IF l.shortCode = reqs[s].code
                       THEN \E n \in store' :
                                /\ n.id = l.id
                                /\ n.shortCode = l.shortCode
                                /\ n.targetUrl = l.targetUrl
                                /\ n.createdAt = l.createdAt
                       ELSE l \in store' ]_vars

\* A redirect has been answered 302 next to the row of another code, which
\* has its one click.
C22_Witness ==
    /\ resp.route = "redirect"
    /\ resp.status = 302
    /\ resp.link \in store
    /\ \E l \in store : l.shortCode # resp.code /\ l.totalClicks = 1

\* This step is the findMany of the GET /api/links request at slot s, and
\* answers it.
ListStep(s) ==
    /\ reqs[s].route = "list"
    /\ reqs[s].pc = "findMany"
    /\ reqs'[s] = Idle
    /\ resp' # NoResponse

\* C23: the reads change nothing.  A GET /api/links/:code is answered 200
\* with the stored row whose shortCode is the code, character for
\* character, and 404 when there is none; and every step of it and of a
\* GET /api/links leaves every row, totalClicks and lastClickedAt included,
\* as it was.
C23_ReadsChangeNothing ==
    [][ \A s \in Slots :
            /\ LinkStep(s) /\ ~resp'.fault =>
                   IF \E l \in store : l.shortCode = reqs[s].code
                   THEN /\ resp'.status = 200
                        /\ resp'.link \in store
                        /\ resp'.link.shortCode = reqs[s].code
                   ELSE /\ resp'.status = 404
                        /\ resp'.link = NoLink
            /\ (/\ reqs'[s] # reqs[s]
                /\ \/ reqs[s].route \in { "list", "get" }
                   \/ reqs'[s].route \in { "list", "get" })
               => /\ store' = store
                  /\ nextId' = nextId ]_vars

\* A GET /api/links/AIROCKS7 has been answered 404 while the row of
\* "airocks7" is stored with a click on it.
C23_Witness ==
    /\ resp.route = "get"
    /\ resp.status = 404
    /\ resp.code = Str_AIROCKS7
    /\ Stored(Str_airocks7)
    /\ RowOf(Str_airocks7).totalClicks = 1

\* The paths /healthz, /, /code/:code, /api/links and /api/links/:code.
ReservedPath(path) ==
    \/ path = << >>
    \/ path = << Str_healthz >>
    \/ Len(path) = 2 /\ path[1] = Str_code
    \/ path = << Str_api, Str_links >>
    \/ Len(path) = 3 /\ path[1] = Str_api /\ path[2] = Str_links

\* The request or response r is one on such a path.
OnReserved(r) == r.route \notin { "idle" } /\ ReservedPath(r.path)

\* No row's totalClicks changes in the step.
CountersKept ==
    \A l \in store : \A n \in store' : n.id = l.id => n.totalClicks = l.totalClicks

\* C24: a request to /healthz, /, /code/:code, /api/links or
\* /api/links/:code is never given to the redirect handler, whatever rows
\* the store holds: no step of such a request is a step of the redirect
\* route, none of its responses is the redirect handler's, and no step of
\* it changes the totalClicks of a row.
C24_ReservedPathsNeverRedirect ==
    [][ /\ \A s \in Slots :
               (reqs'[s] # reqs[s] /\ (OnReserved(reqs[s]) \/ OnReserved(reqs'[s])))
               => /\ reqs[s].route # "redirect"
                  /\ reqs'[s].route # "redirect"
                  /\ reqs'[s].pc # "update"
                  /\ CountersKept
        /\ (resp' # NoResponse /\ ReservedPath(resp'.path))
           => /\ resp'.route # "redirect"
              /\ CountersKept ]_vars

\* GET /healthz is answered by the health check while the row "healthz" is
\* stored with no click and a redirect has counted on the other row.
C24_Witness ==
    /\ resp.route = "healthz"
    /\ resp.path = << Str_healthz >>
    /\ resp.status = 200
    /\ Stored(Str_healthz)
    /\ RowOf(Str_healthz).totalClicks = 0
    /\ Stored(Str_airocks7)
    /\ RowOf(Str_airocks7).totalClicks = 1

====
